---- MODULE Spec2Model ----
(***************************************************************************)
(* Transport session of the Govee BLE light integration.                   *)
(*                                                                         *)
(* Two code paths are modelled:                                            *)
(*   - govee/ble_client.py: BleClient (class-level caches keyed by device  *)
(*     address), send_request / _send_request_to_device / _get_client /    *)
(*     _get_write_characteristic, with govee/helper.py's ResponseEvent and *)
(*     wait_for_event_with_timeout;                                        *)
(*   - ble_light_controller.py: BleLightController._send_command,          *)
(*     _get_connection, _get_write_characteristic.                         *)
(*                                                                         *)
(* Every coroutine is cut at its awaits: one action is the code that runs  *)
(* between two suspension points of a task of the asyncio event loop.      *)
(* The BLE stack (bleak) is the environment: a connect attempt, a write    *)
(* and a subscription succeed or fail, the peripheral notifies when it     *)
(* likes and the link drops when it likes.                                 *)
(***************************************************************************)
EXTENDS Integers, Sequences, FiniteSets, TLC

\* ---------------------------------------------------------------- constants
MAX_CONNECTION_RETRIES == 12
MAX_SEND_RETRIES == 2
max_retries == 5

\* ------------------------------------------------------------------- bounds
\* operations the callers of BleClient.send_request start, in total
MaxOps == 2
\* what the environment does unasked (notifications sent, writes and connect
\* attempts failed, links dropped), in total
MaxEnv == 2

Callers == {"t1", "t2"}
\* the device address every caller talks to; the class-level dicts are keyed by it
Dev == "AA:BB"
Devices == {Dev}

\* every pass through _send_request_to_device makes one ResponseEvent and at most
\* one BleakClient that connects
EventIds == 1..(MAX_SEND_RETRIES * MaxOps)
ConnIds == 1..(MAX_SEND_RETRIES * MaxOps)

\* notification payloads the peripheral may send (bytes)
Notifs == {<<170, 1, 1>>, <<170, 1, 0>>}

\* Optional[bytes]: None is the empty option
None == <<>>
Some(x) == <<x>>

\* ------------------------------------------------------------------ decoding
\* ResponseProcessor.process_power_state_status_request on event.response:
\* hex().startswith("aa01") else None; response[4:6] == "01"
process_power_state_status_request(data) ==
    IF ~(Len(data) >= 2 /\ data[1] = 170 /\ data[2] = 1)
    THEN "None"
    ELSE IF Len(data) >= 3 /\ data[3] = 1 THEN "True" ELSE "False"

\* ---------------------------------------------------------------- variables
VARIABLES
    \* BLE stack: BleakClient objects that connected, numbered in creation order
    nconn, connected, listener, discPending, env,
    \* BleClient class attributes
    connections, ble_write_characteristic, connection_events,
    \* ResponseEvent objects
    nevents, events,
    \* a caller inside send_request / wait_for_event_with_timeout; the locals of a
    \* function are cleared when it returns
    pc, req, counter, connection_try_counter, client, ev, pendingWrite,
    ret, waitResult, got,
    \* history
    attempts, timedOut, writeFailed, opsStarted,
    \* which of the repository's transport implementations is in use
    impl,
    \* a BleLightController and the task inside one of its methods
    characteristic, nfut, futures, ctlPc, wait_for_notify, retry_count, ctlClient,
    response_future, ctlWrite, ctlRet, ctlResponse, ctlAttempts,
    \* GoveeBluetoothLight (light.py): the entity's exposed state, and the method
    \* in progress with its locals
    attr_is_on, attr_brightness, attr_rgb_color, attr_color_temp_kelvin,
    lightPc, lightOp, payloads, lightRetryCount, lightClient, lightWrite, lightRet,
    lightAttempts,
    \* the request factory and the response decoders at work: the command asked
    \* for and the request built for it, a notification and what it decodes to
    command, request, notification, decoded

transportVars == <<nconn, connected, listener, discPending, env>>
classVars == <<connections, ble_write_characteristic, connection_events>>
eventVars == <<nevents, events>>
callerVars == <<pc, req, counter, connection_try_counter, client, ev, pendingWrite,
                ret, waitResult, got>>
historyVars == <<attempts, timedOut, writeFailed, opsStarted>>
ctlVars == <<characteristic, nfut, futures, ctlPc, wait_for_notify, retry_count, ctlClient,
             response_future, ctlWrite, ctlRet, ctlResponse, ctlAttempts>>
attrVars == <<attr_is_on, attr_brightness, attr_rgb_color, attr_color_temp_kelvin>>
lightVars == <<attrVars, lightPc, lightOp, payloads, lightRetryCount, lightClient,
               lightWrite, lightRet, lightAttempts>>
clientVars == <<classVars, eventVars, callerVars, attempts, timedOut>>
codecVars == <<command, request, notification, decoded>>
restVars == <<lightVars, codecVars>>
vars == <<transportVars, classVars, eventVars, callerVars, historyVars, impl, ctlVars,
          lightVars, codecVars>>

Impls == {"BleClient", "BleLightController", "GoveeBluetoothLight"}

\* no write_gatt_char call in flight
NoWrite == [conn |-> 0, live |-> TRUE, reused |-> FALSE, char |-> 0, afterFail |-> FALSE]

\* ResponseEvent.__init__
\* (src is history: the connection whose notification wrote response)
ResponseEvent == [response |-> None, notify_response |-> "None", isSet |-> FALSE, src |-> 0]

\* asyncio.get_event_loop().create_future()
Future == [done |-> FALSE, result |-> None]

Init ==
    /\ nconn = 0
    /\ connected = [c \in ConnIds |-> FALSE]
    /\ listener = [c \in ConnIds |-> 0]
    /\ discPending = [c \in ConnIds |-> FALSE]
    /\ env = 0
    /\ connections = [d \in Devices |-> 0]
    /\ ble_write_characteristic = [d \in Devices |-> 0]
    /\ connection_events = [d \in Devices |-> 0]
    /\ nevents = 0
    /\ events = [e \in EventIds |-> ResponseEvent]
    /\ pc = [t \in Callers |-> "idle"]
    /\ req = [t \in Callers |-> "set"]
    /\ counter = [t \in Callers |-> 0]
    /\ connection_try_counter = [t \in Callers |-> 0]
    /\ client = [t \in Callers |-> 0]
    /\ ev = [t \in Callers |-> 0]
    /\ pendingWrite = [t \in Callers |-> NoWrite]
    /\ ret = [t \in Callers |-> "pending"]
    /\ waitResult = [t \in Callers |-> "none"]
    /\ got = [t \in Callers |-> "None"]
    /\ attempts = [t \in Callers |-> 0]
    /\ timedOut = {}
    /\ writeFailed = {}
    /\ opsStarted = 0
    /\ impl \in Impls
    /\ characteristic = 0
    /\ nfut = 0
    /\ futures = [f \in EventIds |-> Future]
    /\ ctlPc = "idle"
    /\ wait_for_notify = FALSE
    /\ retry_count = 0
    /\ ctlClient = 0
    /\ response_future = 0
    /\ ctlWrite = NoWrite
    /\ ctlRet = "pending"
    /\ ctlResponse = None
    /\ ctlAttempts = 0
    /\ attr_is_on = FALSE
    /\ attr_brightness = None
    /\ attr_rgb_color = None
    /\ attr_color_temp_kelvin = None
    /\ lightPc = "idle"
    /\ lightOp = "none"
    /\ payloads = <<>>
    /\ lightRetryCount = 0
    /\ lightClient = 0
    /\ lightWrite = NoWrite
    /\ lightRet = "pending"
    /\ lightAttempts = 0
    /\ command = <<"none", "none">>
    /\ request = <<"none">>
    /\ notification = <<>>
    /\ decoded = <<"none">>

\* ------------------------------------------------- BleClient: pure decisions
\* send_request: while counter < MAX_SEND_RETRIES
SendLoopContinues(cnt) == cnt < MAX_SEND_RETRIES

\* (mutant: the loop test lets one attempt more through)
ConnectLoopContinues_OffByOne(n) == n <= MAX_CONNECTION_RETRIES

\* _get_client: while connection_try_counter < MAX_CONNECTION_RETRIES
ConnectLoopContinues(n) == n < MAX_CONNECTION_RETRIES

\* (mutant: the cached connection is reused without asking is_connected)
CanReuse_IgnoringIsConnected(d) == connections[d] # 0

\* _send_request_to_device line 44: the cached connection is reused when the
\* address is in _connections and that client reports is_connected
CanReuse(d) == connections[d] # 0 /\ connected[connections[d]]

\* (mutant: the new connection is stored in _connections whatever the request)
StoreConnection_Always(kind, c) == [connections EXCEPT ![Dev] = c]

\* _send_request_to_device lines 47-50: the connection _get_client returned is
\* stored in _connections only for a request without a notify callback
StoreConnection(kind, c) ==
    IF kind = "set" THEN [connections EXCEPT ![Dev] = c] ELSE connections

\* _get_write_characteristic: the cached handle of the address if there is one,
\* else the one found in client.services. A handle is named by the connection
\* whose services it was resolved from.
GetWriteCharacteristic(c) ==
    IF ble_write_characteristic[Dev] # 0 THEN ble_write_characteristic[Dev] ELSE c

WriteCharacteristicCache(c) ==
    IF ble_write_characteristic[Dev] # 0
    THEN ble_write_characteristic
    ELSE [ble_write_characteristic EXCEPT ![Dev] = c]

\* (mutant: on_notify looks the event up in _connection_events)
OnNotifyEvent_FromRegistry(c) == connection_events[Dev]

\* on_notify is a closure over the event of its own pass
OnNotifyEvent(c) == listener[c]

\* (mutant: start_notify returns without the callback being registered)
start_notify_Unarmed(c, callback) == listener

\* client.start_notify(GOVEE_READ_CHAR, on_notify): the stack calls the callback
\* for every notification of the read characteristic from now on
start_notify(c, callback) == [listener EXCEPT ![c] = callback]

\* (mutant: the event is set after every successful write)
EventSetAfterWrite_Always(kind) == TRUE

\* _send_request_to_device lines 84-85: if request.notify_callback is None:
\* event.set()
EventSetAfterWrite(kind) == kind = "set"

\* ble_on_disconnect only logs: the class-level caches stay as they are
ble_on_disconnect(c) == UNCHANGED classVars

\* ---------------------------------------------- BleClient: pieces of actions
\* lines 52-55: event = ResponseEvent(); _connection_events[address] = event
NewEvent(t) ==
    /\ nevents' = nevents + 1
    /\ ev' = [ev EXCEPT ![t] = nevents + 1]
    /\ connection_events' = [connection_events EXCEPT ![Dev] = nevents + 1]

\* lines 81-82: resolve the characteristic and call write_gatt_char (suspends)
IssueWrite(t, c, live, reused) ==
    /\ ble_write_characteristic' = WriteCharacteristicCache(c)
    /\ pendingWrite' = [pendingWrite EXCEPT ![t] =
                            [conn |-> c, live |-> live, reused |-> reused,
                             char |-> GetWriteCharacteristic(c),
                             afterFail |-> c \in writeFailed]]
    /\ pc' = [pc EXCEPT ![t] = "writing"]

\* _send_request_to_device from its first line to its first await
SendRequestToDevice(t, kind) ==
    IF kind = "set" /\ CanReuse(Dev)
    THEN /\ client' = [client EXCEPT ![t] = connections[Dev]]
         /\ NewEvent(t)
         /\ IssueWrite(t, connections[Dev], connected[connections[Dev]], TRUE)
         /\ UNCHANGED <<connection_try_counter, attempts>>
    ELSE /\ pc' = [pc EXCEPT ![t] = "connecting"]
         /\ connection_try_counter' = [connection_try_counter EXCEPT ![t] = 1]
         /\ attempts' = [attempts EXCEPT ![t] = 0]
         /\ client' = [client EXCEPT ![t] = 0]
         /\ ev' = [ev EXCEPT ![t] = 0]
         /\ pendingWrite' = [pendingWrite EXCEPT ![t] = NoWrite]
         /\ UNCHANGED <<nevents, connection_events, ble_write_characteristic>>

\* send_request's except BleakError: counter += 1, then the loop test; when the
\* loop ends the function falls off its end
OnBleakError(t) ==
    IF SendLoopContinues(counter[t] + 1)
    THEN /\ counter' = [counter EXCEPT ![t] = counter[t] + 1]
         /\ SendRequestToDevice(t, req[t])
         /\ UNCHANGED ret
    ELSE /\ pc' = [pc EXCEPT ![t] = "done"]
         /\ ret' = [ret EXCEPT ![t] = "None"]
         /\ counter' = [counter EXCEPT ![t] = 0]
         /\ client' = [client EXCEPT ![t] = 0]
         /\ ev' = [ev EXCEPT ![t] = 0]
         /\ pendingWrite' = [pendingWrite EXCEPT ![t] = NoWrite]
         /\ UNCHANGED <<nevents, connection_events, connection_try_counter,
                        attempts, ble_write_characteristic>>

\* ------------------------------------------------------- BleClient: actions
\* a caller calls BleClient.send_request(device, request)
SendRequest(t, kind) ==
    /\ UNCHANGED <<impl, ctlVars, restVars>>
    /\ impl = "BleClient"
    /\ pc[t] = "idle"
    /\ opsStarted < MaxOps
    /\ opsStarted' = opsStarted + 1
    /\ req' = [req EXCEPT ![t] = kind]
    /\ counter' = [counter EXCEPT ![t] = 0]
    /\ ret' = [ret EXCEPT ![t] = "pending"]
    /\ waitResult' = [waitResult EXCEPT ![t] = "none"]
    /\ got' = [got EXCEPT ![t] = "None"]
    /\ SendRequestToDevice(t, kind)
    /\ UNCHANGED <<transportVars, connections, events, timedOut, writeFailed>>

\* _get_client: await client.connect() returned
ConnectOk(t) ==
    /\ UNCHANGED <<impl, ctlVars, restVars>>
    /\ pc[t] = "connecting"
    /\ nconn < MAX_SEND_RETRIES * MaxOps
    /\ LET c == nconn + 1 IN
       /\ nconn' = c
       /\ connected' = [connected EXCEPT ![c] = TRUE]
       /\ client' = [client EXCEPT ![t] = c]
       /\ attempts' = [attempts EXCEPT ![t] = 0]
       /\ connection_try_counter' = [connection_try_counter EXCEPT ![t] = 0]
       /\ NewEvent(t)
       /\ connections' = StoreConnection(req[t], c)
       /\ IF req[t] = "set"
          THEN IssueWrite(t, c, TRUE, FALSE)
          ELSE /\ pc' = [pc EXCEPT ![t] = "arming"]
               /\ UNCHANGED <<ble_write_characteristic, pendingWrite>>
    /\ UNCHANGED <<listener, discPending, env, events, req, counter,
                   ret, waitResult, got, timedOut, writeFailed, opsStarted>>

\* _get_client: client.connect() raised; sleep, then the loop test
ConnectRaised(t) ==
    /\ UNCHANGED <<impl, ctlVars, restVars>>
    /\ pc[t] = "connecting"
    /\ IF ConnectLoopContinues(connection_try_counter[t])
       THEN /\ connection_try_counter' =
                   [connection_try_counter EXCEPT ![t] = @ + 1]
            /\ attempts' = [attempts EXCEPT ![t] = @ + 1]
            /\ UNCHANGED <<pc, ret, counter>>
       ELSE \* raise Exception: not a BleakError, send_request lets it through
            /\ pc' = [pc EXCEPT ![t] = "done"]
            /\ ret' = [ret EXCEPT ![t] = "raised"]
            /\ counter' = [counter EXCEPT ![t] = 0]
            /\ connection_try_counter' = [connection_try_counter EXCEPT ![t] = 0]
            /\ attempts' = [attempts EXCEPT ![t] = 0]
    /\ UNCHANGED <<nconn, connected, listener, discPending, classVars, eventVars, req,
                   client, ev, pendingWrite, waitResult, got, timedOut, writeFailed,
                   opsStarted>>

\* a failed connect attempt, counted among what the environment does unasked
ConnectFail(t) ==
    /\ env < MaxEnv
    /\ env' = env + 1
    /\ ConnectRaised(t)

\* a failed connect attempt, as often as the peripheral is out of reach
ConnectFailFree(t) ==
    /\ UNCHANGED env
    /\ ConnectRaised(t)

\* await client.start_notify(GOVEE_READ_CHAR, on_notify) returned or raised
StartNotify(t) ==
    /\ UNCHANGED <<impl, ctlVars, restVars>>
    /\ pc[t] = "arming"
    /\ IF connected[client[t]]
       THEN /\ listener' = start_notify(client[t], ev[t])
            /\ IssueWrite(t, client[t], TRUE, FALSE)
            /\ UNCHANGED <<counter, ret, client, ev, nevents, connection_events,
                           connection_try_counter, attempts>>
       ELSE /\ OnBleakError(t)
            /\ UNCHANGED listener
    /\ UNCHANGED <<nconn, connected, discPending, env, connections, events,
                   req, waitResult, got, timedOut, writeFailed, opsStarted>>

\* await client.write_gatt_char(...) returned; _send_request_to_device returns
\* the event and send_request returns it
WriteOk(t) ==
    /\ UNCHANGED <<impl, ctlVars, restVars>>
    /\ pc[t] = "writing"
    /\ connected[client[t]]
    /\ ret' = [ret EXCEPT ![t] = "event"]
    /\ counter' = [counter EXCEPT ![t] = 0]
    /\ pendingWrite' = [pendingWrite EXCEPT ![t] = NoWrite]
    /\ events' = IF EventSetAfterWrite(req[t])
                  THEN [events EXCEPT ![ev[t]].isSet = TRUE]
                  ELSE events
    /\ IF req[t] = "set"
       THEN /\ pc' = [pc EXCEPT ![t] = "done"]
            /\ client' = [client EXCEPT ![t] = 0]
            /\ ev' = [ev EXCEPT ![t] = 0]
       ELSE /\ pc' = [pc EXCEPT ![t] = "waiting"]
            /\ UNCHANGED <<client, ev>>
    /\ UNCHANGED <<transportVars, classVars, nevents, req, connection_try_counter,
                   waitResult, got, historyVars>>

\* await client.write_gatt_char(...) raised BleakError
WriteFail(t) ==
    /\ UNCHANGED <<impl, ctlVars, restVars>>
    /\ pc[t] = "writing"
    /\ env < MaxEnv \/ ~connected[client[t]]
    /\ env' = IF connected[client[t]] THEN env + 1 ELSE env
    /\ writeFailed' = writeFailed \cup {client[t]}
    /\ OnBleakError(t)
    /\ UNCHANGED <<nconn, connected, listener, discPending, connections, events,
                   req, waitResult, got, timedOut, opsStarted>>

\* the peripheral notifies on connection c: on_notify up to its await
Notify(c, data) ==
    /\ UNCHANGED <<impl, ctlVars, restVars>>
    /\ impl = "BleClient"
    /\ connected[c]
    /\ listener[c] # 0
    /\ env < MaxEnv
    /\ env' = env + 1
    /\ events' = [events EXCEPT ![OnNotifyEvent(c)] =
                      [response |-> Some(data),
                       notify_response |-> process_power_state_status_request(data),
                       isSet |-> TRUE, src |-> c]]
    /\ discPending' = [discPending EXCEPT ![c] = TRUE]
    /\ UNCHANGED <<nconn, connected, listener, classVars, nevents, callerVars,
                   historyVars>>

\* on_notify: await client.disconnect() done
Disconnect(c) ==
    /\ UNCHANGED <<impl, ctlVars, restVars>>
    /\ discPending[c]
    /\ connected' = [connected EXCEPT ![c] = FALSE]
    /\ listener' = [listener EXCEPT ![c] = 0]
    /\ discPending' = [discPending EXCEPT ![c] = FALSE]
    /\ UNCHANGED <<nconn, env, classVars, eventVars, callerVars, historyVars>>

\* the peripheral drops the link: bleak marks the client disconnected and calls
\* ble_on_disconnect
LinkDrop(c) ==
    /\ UNCHANGED <<impl, ctlVars, restVars>>
    /\ connected[c]
    /\ env < MaxEnv
    /\ env' = env + 1
    /\ connected' = [connected EXCEPT ![c] = FALSE]
    /\ listener' = [listener EXCEPT ![c] = 0]
    /\ discPending' = [discPending EXCEPT ![c] = FALSE]
    /\ ble_on_disconnect(c)
    /\ UNCHANGED <<nconn, eventVars, callerVars, historyVars>>

\* wait_for_event_with_timeout: event.wait() returned within the timeout
WaitReturn(t) ==
    /\ UNCHANGED <<impl, ctlVars, restVars>>
    /\ pc[t] = "waiting"
    /\ events[ev[t]].isSet
    /\ waitResult' = [waitResult EXCEPT ![t] = "True"]
    /\ got' = [got EXCEPT ![t] = events[ev[t]].notify_response]
    /\ pc' = [pc EXCEPT ![t] = "done"]
    /\ client' = [client EXCEPT ![t] = 0]
    /\ ev' = [ev EXCEPT ![t] = 0]
    /\ UNCHANGED <<transportVars, classVars, eventVars, req, counter,
                   connection_try_counter, pendingWrite, ret, historyVars>>

\* wait_for_event_with_timeout: asyncio.TimeoutError after 20 s
WaitTimeout(t) ==
    /\ UNCHANGED <<impl, ctlVars, restVars>>
    /\ pc[t] = "waiting"
    /\ ~events[ev[t]].isSet
    /\ waitResult' = [waitResult EXCEPT ![t] = "False"]
    /\ timedOut' = timedOut \cup {ev[t]}
    /\ pc' = [pc EXCEPT ![t] = "done"]
    /\ client' = [client EXCEPT ![t] = 0]
    /\ ev' = [ev EXCEPT ![t] = 0]
    /\ UNCHANGED <<transportVars, classVars, eventVars, req, counter,
                   connection_try_counter, pendingWrite, ret, got,
                   attempts, writeFailed, opsStarted>>

\* the caller has looked at what it got; its locals are gone
Return(t) ==
    /\ UNCHANGED <<impl, ctlVars, restVars>>
    /\ pc[t] = "done"
    /\ pc' = [pc EXCEPT ![t] = "idle"]
    /\ req' = [req EXCEPT ![t] = "set"]
    /\ ret' = [ret EXCEPT ![t] = "pending"]
    /\ waitResult' = [waitResult EXCEPT ![t] = "none"]
    /\ got' = [got EXCEPT ![t] = "None"]
    /\ UNCHANGED <<transportVars, classVars, eventVars, counter, connection_try_counter,
                   client, ev, pendingWrite, historyVars>>

\* ------------------------------------------- BleLightController: decisions
\* _get_connection: while retry_count < max_retries
CtlLoopContinues(n) == n < max_retries

\* _get_write_characteristic: self._characteristic if it is not None, else the
\* one found in client.services (named by the connection it was resolved from)
CtlGetWriteCharacteristic(c) == IF characteristic # 0 THEN characteristic ELSE c

\* on_notify: if not response_future.done(): response_future.set_result(data)
CtlOnNotify(f, data) == IF f.done THEN f ELSE [done |-> TRUE, result |-> Some(data)]

\* lines 106-108: resolve the characteristic and call write_gatt_char (suspends)
CtlIssueWrite(c) ==
    /\ characteristic' = CtlGetWriteCharacteristic(c)
    /\ ctlWrite' = [conn |-> c, live |-> connected[c] \/ c = nconn + 1, reused |-> FALSE,
                    char |-> CtlGetWriteCharacteristic(c), afterFail |-> c \in writeFailed]
    /\ ctlPc' = "writing"

\* an exception leaves _send_command and the calling method
CtlRaise ==
    /\ ctlPc' = "done"
    /\ ctlRet' = "raised"
    /\ ctlClient' = 0
    /\ response_future' = 0
    /\ retry_count' = 0
    /\ ctlAttempts' = 0
    /\ ctlWrite' = NoWrite

\* -------------------------------------------- BleLightController: actions
\* a method calls _send_command(command, wait_for_notify): is_power_on,
\* get_brightness, get_color, get_color_temperature pass True, the setters nothing
CtlSendCommand(wait) ==
    /\ impl = "BleLightController"
    /\ ctlPc \in {"idle", "done"}
    /\ opsStarted < MaxOps
    /\ opsStarted' = opsStarted + 1
    /\ wait_for_notify' = wait
    /\ ctlPc' = "connecting"
    /\ retry_count' = 0
    /\ ctlAttempts' = 0
    /\ ctlRet' = "pending"
    /\ ctlResponse' = None
    /\ UNCHANGED <<transportVars, clientVars, writeFailed, impl, restVars, characteristic, nfut,
                   futures, ctlClient, response_future, ctlWrite>>

\* _get_connection: establish_connection returned
CtlConnectOk ==
    /\ ctlPc = "connecting"
    /\ nconn < MAX_SEND_RETRIES * MaxOps
    /\ LET c == nconn + 1 IN
       /\ nconn' = c
       /\ connected' = [connected EXCEPT ![c] = TRUE]
       /\ ctlClient' = c
       /\ retry_count' = 0
       /\ ctlAttempts' = 0
       /\ IF wait_for_notify
          THEN /\ nfut' = nfut + 1
               /\ response_future' = nfut + 1
               /\ ctlPc' = "arming"
               /\ UNCHANGED <<characteristic, ctlWrite>>
          ELSE /\ CtlIssueWrite(c)
               /\ UNCHANGED <<nfut, response_future>>
    /\ UNCHANGED <<listener, discPending, env, clientVars, writeFailed, opsStarted, impl, restVars,
                   futures, wait_for_notify, ctlRet, ctlResponse>>

\* _get_connection: establish_connection raised; retry_count += 1, sleep, loop test
CtlConnectRaised ==
    /\ ctlPc = "connecting"
    /\ IF CtlLoopContinues(retry_count + 1)
       THEN /\ retry_count' = retry_count + 1
            /\ ctlAttempts' = ctlAttempts + 1
            /\ UNCHANGED <<ctlPc, ctlRet, ctlClient, response_future, ctlWrite>>
       ELSE CtlRaise
    /\ UNCHANGED <<nconn, connected, listener, discPending, clientVars, writeFailed,
                   opsStarted, impl, restVars, characteristic, nfut, futures, wait_for_notify,
                   ctlResponse>>

CtlConnectFail ==
    /\ env < MaxEnv
    /\ env' = env + 1
    /\ CtlConnectRaised

CtlConnectFailFree ==
    /\ UNCHANGED env
    /\ CtlConnectRaised

\* await client.start_notify(GOVEE_READ_CHAR, on_notify) returned or raised
CtlStartNotify ==
    /\ ctlPc = "arming"
    /\ IF connected[ctlClient]
       THEN /\ listener' = start_notify(ctlClient, response_future)
            /\ CtlIssueWrite(ctlClient)
            /\ UNCHANGED <<ctlRet, ctlClient, response_future, retry_count, ctlAttempts>>
       ELSE /\ CtlRaise
            /\ UNCHANGED <<listener, characteristic>>
    /\ UNCHANGED <<nconn, connected, discPending, env, clientVars, writeFailed, opsStarted,
                   impl, restVars, nfut, futures, wait_for_notify, ctlResponse>>

\* await client.write_gatt_char(characteristic, command) returned
CtlWriteOk ==
    /\ ctlPc = "writing"
    /\ connected[ctlClient]
    /\ ctlWrite' = NoWrite
    /\ IF wait_for_notify
       THEN /\ ctlPc' = "awaiting"
            /\ UNCHANGED <<ctlRet, ctlClient, response_future>>
       ELSE /\ ctlPc' = "done"
            /\ ctlRet' = "returned"
            /\ ctlClient' = 0
            /\ response_future' = 0
    /\ UNCHANGED <<transportVars, clientVars, writeFailed, opsStarted, impl, restVars, characteristic,
                   nfut, futures, wait_for_notify, retry_count, ctlResponse, ctlAttempts>>

\* await client.write_gatt_char(characteristic, command) raised
CtlWriteFail ==
    /\ ctlPc = "writing"
    /\ env < MaxEnv \/ ~connected[ctlClient]
    /\ env' = IF connected[ctlClient] THEN env + 1 ELSE env
    /\ writeFailed' = writeFailed \cup {ctlClient}
    /\ CtlRaise
    /\ UNCHANGED <<nconn, connected, listener, discPending, clientVars, opsStarted, impl, restVars,
                   characteristic, nfut, futures, wait_for_notify, ctlResponse>>

\* the peripheral notifies on connection c: the controller's on_notify
CtlNotify(c, data) ==
    /\ impl = "BleLightController"
    /\ connected[c]
    /\ listener[c] # 0
    /\ env < MaxEnv
    /\ env' = env + 1
    /\ futures' = [futures EXCEPT ![listener[c]] = CtlOnNotify(@, data)]
    /\ UNCHANGED <<nconn, connected, listener, discPending, clientVars, writeFailed,
                   opsStarted, impl, restVars, characteristic, nfut, ctlPc, wait_for_notify,
                   retry_count, ctlClient, response_future, ctlWrite, ctlRet, ctlResponse,
                   ctlAttempts>>

\* return await response_future
CtlAwaitReturn ==
    /\ ctlPc = "awaiting"
    /\ futures[response_future].done
    /\ ctlResponse' = futures[response_future].result
    /\ ctlRet' = "returned"
    /\ ctlPc' = "done"
    /\ ctlClient' = 0
    /\ response_future' = 0
    /\ UNCHANGED <<transportVars, clientVars, writeFailed, opsStarted, impl, restVars, characteristic,
                   nfut, futures, wait_for_notify, retry_count, ctlWrite, ctlAttempts>>

\* --------------------------------------- GoveeBluetoothLight: pure functions
\* _get_connection: max_retries = 5
light_max_retries == 5

\* a str of hex digits is the sequence of its digits' values
Zeros(n) == [i \in 1..n |-> 0]

\* math.ceil(a / b) for naturals a and b > 0
CeilDiv(a, b) == (a + b - 1) \div b

\* "{:x}".format(n): the hex digits of n, without leading zeros
RECURSIVE HexDigits(_)
HexDigits(n) == IF n < 16 THEN <<n>> ELSE HexDigits(n \div 16) \o <<n % 16>>

\* "{:02x}".format(n): at least two digits, more when n > 255
Format02x(n) == IF n < 16 THEN <<0, n>> ELSE HexDigits(n)

\* int(s, 16)
RECURSIVE HexToInt(_)
HexToInt(s) ==
    IF s = <<>> THEN 0 ELSE 16 * HexToInt(SubSeq(s, 1, Len(s) - 1)) + s[Len(s)]

\* bytes.hex()
RECURSIVE BytesHex(_)
BytesHex(data) ==
    IF data = <<>> THEN <<>> ELSE Format02x(Head(data)) \o BytesHex(Tail(data))

\* helper.rgb_to_hex
rgb_to_hex(red, green, blue) == Format02x(red) \o Format02x(green) \o Format02x(blue)

\* (mutant: the green channel is read from the digits of the red one)
hex_to_rgb_GreenFromRed(hex_color) ==
    <<HexToInt(SubSeq(hex_color, 1, 2)), HexToInt(SubSeq(hex_color, 1, 2)),
      HexToInt(SubSeq(hex_color, 5, 6))>>

\* helper.hex_to_rgb
hex_to_rgb(hex_color) ==
    <<HexToInt(SubSeq(hex_color, 1, 2)), HexToInt(SubSeq(hex_color, 3, 4)),
      HexToInt(SubSeq(hex_color, 5, 6))>>

\* helper.kelvin_to_hex: int() of the three clamped channels, tabulated from the
\* logarithmic formula for the temperatures used here
KelvinChannels(kelvin) ==
    CASE kelvin = 2000 -> <<255, 136, 13>>
      [] kelvin = 3000 -> <<255, 177, 109>>
      [] kelvin = 6500 -> <<255, 254, 250>>

kelvin_to_hex(kelvin) ==
    LET c == KelvinChannels(kelvin) IN rgb_to_hex(c[1], c[2], c[3])

\* str(n).zfill(2), 0 <= n <= 99: the decimal digits, which the payload then
\* carries as hex digits
DecimalZfill2(n) == <<n \div 10, n % 10>>

\* hex(n)[2:].zfill(4), 0 <= n <= 65535
HexZfill4(n) == <<n \div 4096, (n \div 256) % 16, (n \div 16) % 16, n % 16>>

\* async_turn_on, lines 64-70: the brightness payload
BrightnessPayload(brightness_ha) ==
    LET brightness_percent == CeilDiv(brightness_ha * 100, 255)
        digits == DecimalZfill2(CeilDiv(64 * brightness_percent, 100))
        brightness == IF digits = <<0, 0>> THEN <<0, 1>> ELSE digits
    IN <<3, 3, 0, 4>> \o brightness \o Zeros(32)

\* async_turn_on, lines 80-84: the colour payload
RgbPayload(rgb) ==
    <<3, 3, 0, 5, 0, 13>> \o rgb_to_hex(rgb[1], rgb[2], rgb[3]) \o Zeros(26)

\* async_turn_on, lines 96-103: the colour temperature payload
ColorTempPayload(color_temp_kelvin) ==
    <<3, 3, 0, 5, 0, 13, 15, 15, 15, 15, 15, 15>> \o HexZfill4(color_temp_kelvin)
        \o Zeros(22)

PowerOnPayload == <<3, 3, 0, 1, 0, 1>> \o Zeros(32)

PowerOffPayload == <<3, 3, 0, 1, 0, 0>> \o Zeros(32)

\* GoveeBluetoothLight.update_payloads
update_payloads ==
    << <<10, 10, 0, 1>> \o Zeros(34), <<10, 10, 0, 4>> \o Zeros(34),
       <<10, 10, 0, 5, 0, 1>> \o Zeros(32) >>

\* the keyword arguments async_turn_on is called with; the method itself does
\* not restrict them, so one colour has a channel beyond 255
Opt(S) == {None} \cup {Some(x) : x \in S}

Kwargs ==
    [brightness : Opt({1, 255}), rgb_color : Opt({<<255, 0, 0>>, <<0, 0, 256>>}),
     color_temp_kelvin : Opt({3000})]

\* notifications the peripheral may send to the entity: power, brightness,
\* colour with and without a colour temperature, and a frame that is no answer
LightNotifs ==
    {<<170, 1, 1, 0, 0, 0, 0, 0>>, <<170, 1, 0, 0, 0, 0, 0, 0>>,
     <<170, 4, 32, 0, 0, 0, 0, 0>>, <<170, 5, 1, 255, 0, 0, 0, 0>>,
     <<170, 5, 1, 255, 255, 255, 11, 184>>, <<51, 1, 1, 0, 0, 0, 0, 0>>}

\* async_turn_on, lines 59-111: the payload list
TurnOnPayloads(kwargs) ==
    <<PowerOnPayload>>
    \o (IF kwargs.brightness # None
        THEN <<BrightnessPayload(kwargs.brightness[1])>> ELSE <<>>)
    \o (IF kwargs.rgb_color # None THEN <<RgbPayload(kwargs.rgb_color[1])>> ELSE <<>>)
    \o (IF kwargs.color_temp_kelvin # None
        THEN <<ColorTempPayload(kwargs.color_temp_kelvin[1])>> ELSE <<>>)

\* async_turn_on, lines 62-111: the attributes it assigns before it connects
TurnOnAttrs(kwargs) ==
    /\ attr_is_on' = TRUE
    /\ attr_brightness' =
           IF kwargs.brightness # None THEN kwargs.brightness ELSE attr_brightness
    /\ attr_rgb_color' =
           IF kwargs.color_temp_kelvin # None
           THEN Some(hex_to_rgb(kelvin_to_hex(kwargs.color_temp_kelvin[1])))
           ELSE IF kwargs.rgb_color # None THEN kwargs.rgb_color ELSE attr_rgb_color
    /\ attr_color_temp_kelvin' =
           IF kwargs.color_temp_kelvin # None
           THEN kwargs.color_temp_kelvin ELSE attr_color_temp_kelvin

\* async_update.on_notify, lines 126-171
LightOnNotify(data) ==
    LET response == BytesHex(data)
        type == SubSeq(response, 3, 4)
        color_temp_kelvin == HexToInt(SubSeq(response, 13, 16))
        color_hex == IF color_temp_kelvin > 0
                     THEN kelvin_to_hex(color_temp_kelvin)
                     ELSE SubSeq(response, 7, 12)
        brightness_percent == CeilDiv(HexToInt(SubSeq(response, 5, 6)) * 100, 64)
    IN IF SubSeq(response, 1, 2) # <<10, 10>>
       THEN UNCHANGED attrVars
       ELSE CASE type = <<0, 1>> ->
                  /\ attr_is_on' = (SubSeq(response, 5, 6) = <<0, 1>>)
                  /\ UNCHANGED <<attr_brightness, attr_rgb_color, attr_color_temp_kelvin>>
              [] type = <<0, 4>> ->
                  /\ attr_brightness' = Some(CeilDiv(255 * brightness_percent, 100))
                  /\ UNCHANGED <<attr_is_on, attr_rgb_color, attr_color_temp_kelvin>>
              [] type = <<0, 5>> ->
                  /\ attr_rgb_color' = Some(hex_to_rgb(color_hex))
                  /\ attr_color_temp_kelvin' = Some(color_temp_kelvin)
                  /\ UNCHANGED <<attr_is_on, attr_brightness>>
              [] OTHER -> UNCHANGED attrVars

\* _get_connection: while retry_count < max_retries
LightLoopContinues(n) == n < light_max_retries

\* _send_payloads: ble_get_write_characteristic(client) looks the characteristic
\* up in the services of the client it is given, then write_gatt_char suspends
LightIssueWrite(c) ==
    /\ lightWrite' = [conn |-> c, live |-> connected[c] \/ c = nconn + 1, reused |-> FALSE,
                      char |-> c, afterFail |-> c \in writeFailed]
    /\ lightPc' = "writing"

\* ble_get_command: bytes.fromhex(payload + checksum) raises ValueError unless
\* the number of hex digits is even (the checksum has two)
FromHexRaises(payload) == Len(payload) % 2 = 1

\* an exception leaves the method
LightRaise ==
    /\ lightPc' = "done"
    /\ lightRet' = "raised"
    /\ lightClient' = 0
    /\ lightRetryCount' = 0
    /\ lightAttempts' = 0
    /\ lightWrite' = NoWrite
    /\ payloads' = <<>>

\* ---------------------------------------------- GoveeBluetoothLight: actions
\* what the other two implementations and the codecs own
NotLight ==
    <<classVars, eventVars, callerVars, attempts, timedOut, impl, ctlVars, codecVars>>

\* async_turn_on(**kwargs) up to its await of _get_connection
LightTurnOn(kwargs) ==
    /\ impl = "GoveeBluetoothLight"
    /\ lightPc \in {"idle", "done"}
    /\ opsStarted < MaxOps
    /\ opsStarted' = opsStarted + 1
    /\ lightOp' = "turn_on"
    /\ payloads' = TurnOnPayloads(kwargs)
    /\ TurnOnAttrs(kwargs)
    /\ lightPc' = "connecting"
    /\ lightRetryCount' = 0
    /\ lightAttempts' = 0
    /\ lightRet' = "pending"
    /\ UNCHANGED <<transportVars, NotLight, writeFailed, lightClient, lightWrite>>

\* async_turn_off() up to its await of _get_connection
LightTurnOff ==
    /\ impl = "GoveeBluetoothLight"
    /\ lightPc \in {"idle", "done"}
    /\ opsStarted < MaxOps
    /\ opsStarted' = opsStarted + 1
    /\ lightOp' = "turn_off"
    /\ payloads' = <<PowerOffPayload>>
    /\ attr_is_on' = FALSE
    /\ lightPc' = "connecting"
    /\ lightRetryCount' = 0
    /\ lightAttempts' = 0
    /\ lightRet' = "pending"
    /\ UNCHANGED <<transportVars, NotLight, writeFailed, attr_brightness, attr_rgb_color,
                   attr_color_temp_kelvin, lightClient, lightWrite>>

\* async_update() up to its await of _get_connection (after asyncio.sleep(1))
LightUpdate ==
    /\ impl = "GoveeBluetoothLight"
    /\ lightPc \in {"idle", "done"}
    /\ opsStarted < MaxOps
    /\ opsStarted' = opsStarted + 1
    /\ lightOp' = "update"
    /\ payloads' = update_payloads
    /\ lightPc' = "connecting"
    /\ lightRetryCount' = 0
    /\ lightAttempts' = 0
    /\ lightRet' = "pending"
    /\ UNCHANGED <<transportVars, NotLight, writeFailed, attrVars, lightClient, lightWrite>>

\* _get_connection: establish_connection returned; async_update goes on to
\* start_notify, the others to _send_payloads
LightConnectOk ==
    /\ lightPc = "connecting"
    /\ nconn < MAX_SEND_RETRIES * MaxOps
    /\ LET c == nconn + 1 IN
       /\ nconn' = c
       /\ connected' = [connected EXCEPT ![c] = TRUE]
       /\ lightClient' = c
       /\ lightRetryCount' = 0
       /\ lightAttempts' = 0
       /\ IF lightOp = "update"
          THEN /\ lightPc' = "arming"
               /\ UNCHANGED lightWrite
          ELSE LightIssueWrite(c)
    /\ UNCHANGED <<listener, discPending, env, NotLight, writeFailed, opsStarted, attrVars,
                   lightOp, payloads, lightRet>>

\* _get_connection: establish_connection raised; retry_count += 1, sleep, loop test
LightConnectRaised ==
    /\ lightPc = "connecting"
    /\ IF LightLoopContinues(lightRetryCount + 1)
       THEN /\ lightRetryCount' = lightRetryCount + 1
            /\ lightAttempts' = lightAttempts + 1
            /\ UNCHANGED <<lightPc, lightRet, lightClient, lightWrite, payloads>>
       ELSE LightRaise
    /\ UNCHANGED <<nconn, connected, listener, discPending, NotLight, writeFailed,
                   opsStarted, attrVars, lightOp>>

LightConnectFail ==
    /\ env < MaxEnv
    /\ env' = env + 1
    /\ LightConnectRaised

LightConnectFailFree ==
    /\ UNCHANGED env
    /\ LightConnectRaised

\* async_update: await client.start_notify(GOVEE_READ_CHAR, on_notify) returned
\* or raised
LightStartNotify ==
    /\ lightPc = "arming"
    /\ IF connected[lightClient]
       THEN /\ listener' = start_notify(lightClient, 1)
            /\ LightIssueWrite(lightClient)
            /\ UNCHANGED <<lightRet, lightClient, lightRetryCount, lightAttempts, payloads>>
       ELSE /\ LightRaise
            /\ UNCHANGED listener
    /\ UNCHANGED <<nconn, connected, discPending, env, NotLight, writeFailed, opsStarted,
                   attrVars, lightOp>>

\* _send_payloads: await client.write_gatt_char(characteristic, command)
\* returned; the loop goes on to the next payload or the method returns
LightWriteOk ==
    /\ lightPc = "writing"
    /\ connected[lightClient]
    /\ IF Tail(payloads) = <<>>
       THEN /\ payloads' = <<>>
            /\ lightWrite' = NoWrite
            /\ lightPc' = "done"
            /\ lightRet' = "returned"
            /\ lightClient' = 0
            /\ UNCHANGED <<lightRetryCount, lightAttempts>>
       ELSE IF FromHexRaises(Head(Tail(payloads)))
       THEN LightRaise
       ELSE /\ payloads' = Tail(payloads)
            /\ LightIssueWrite(lightClient)
            /\ UNCHANGED <<lightRet, lightClient, lightRetryCount, lightAttempts>>
    /\ UNCHANGED <<transportVars, NotLight, writeFailed, opsStarted, attrVars, lightOp>>

\* _send_payloads: await client.write_gatt_char(characteristic, command) raised
LightWriteFail ==
    /\ lightPc = "writing"
    /\ env < MaxEnv \/ ~connected[lightClient]
    /\ env' = IF connected[lightClient] THEN env + 1 ELSE env
    /\ writeFailed' = writeFailed \cup {lightClient}
    /\ LightRaise
    /\ UNCHANGED <<nconn, connected, listener, discPending, NotLight, opsStarted, attrVars,
                   lightOp>>

\* the peripheral notifies on connection c: async_update's on_notify
LightNotify(c, data) ==
    /\ impl = "GoveeBluetoothLight"
    /\ connected[c]
    /\ listener[c] # 0
    /\ env < MaxEnv
    /\ env' = env + 1
    /\ LightOnNotify(data)
    /\ UNCHANGED <<nconn, connected, listener, discPending, NotLight, writeFailed,
                   opsStarted, lightPc, lightOp, payloads, lightRetryCount, lightClient,
                   lightWrite, lightRet, lightAttempts>>

\* ------------------------------------------------ requests (ble_requests.py)
\* a ^ b on naturals
RECURSIVE Xor(_, _)
Xor(a, b) ==
    IF a = 0 /\ b = 0 THEN 0 ELSE ((a + b) % 2) + (2 * Xor(a \div 2, b \div 2))

\* the byte values of a hex string: int(payload[i:i + 2], 16) for i in
\* range(0, len(payload), 2), which is also what bytes.fromhex yields
RECURSIVE HexBytes(_)
HexBytes(hex) ==
    IF hex = <<>> THEN <<>>
    ELSE <<HexToInt(SubSeq(hex, 1, 2))>> \o HexBytes(SubSeq(hex, 3, Len(hex)))

\* result = hex_values[0]; for value in hex_values[1:]: result ^= value
RECURSIVE XorAll(_)
XorAll(hex_values) ==
    IF Len(hex_values) = 1 THEN hex_values[1]
    ELSE Xor(XorAll(SubSeq(hex_values, 1, Len(hex_values) - 1)),
             hex_values[Len(hex_values)])

\* (mutant: the checksum leaves the first byte out)
ble_get_checksum_SkipFirst(payload) == Format02x(XorAll(Tail(HexBytes(payload))))

\* ble_get_checksum: hex(result)[2:].zfill(2)
ble_get_checksum(payload) == Format02x(XorAll(HexBytes(payload)))

\* ble_get_payload: bytes.fromhex(command + checksum)
ble_get_payload(cmd) == HexBytes(cmd \o ble_get_checksum(cmd))

\* BleRequest(payload, notify_callback); a raised ValueError is <<"ValueError">>
BleRequest(payload, notify_callback) == <<"BleRequest", payload, notify_callback>>

ValueError == <<"ValueError">>

\* BleLightRequestFactory.create_power_state_request
create_power_state_request(power_on) ==
    BleRequest(ble_get_payload(IF power_on THEN <<3, 3, 0, 1, 0, 1>> \o Zeros(32)
                                           ELSE <<3, 3, 0, 1, 0, 0>> \o Zeros(32)),
               "None")

\* create_brightness_request line 64: str(math.ceil(64 * (p / 100))).zfill(2)
BrightnessDigits(brightness_percent) ==
    DecimalZfill2(CeilDiv(64 * brightness_percent, 100))

\* BleLightRequestFactory.create_brightness_request
create_brightness_request(brightness_percent) ==
    IF ~(1 <= brightness_percent /\ brightness_percent <= 100)
    THEN ValueError
    ELSE LET digits == BrightnessDigits(brightness_percent)
             brightness == IF digits = <<0, 0>> THEN <<0, 1>> ELSE digits
         IN BleRequest(ble_get_payload(<<3, 3, 0, 4>> \o brightness \o Zeros(32)), "None")

\* BleLightRequestFactory.create_color_request
create_color_request(colors_rgb) ==
    IF ~(\A i \in 1..3 : 0 <= colors_rgb[i] /\ colors_rgb[i] <= 255)
    THEN ValueError
    ELSE BleRequest(ble_get_payload(<<3, 3, 0, 5, 0, 13>>
                        \o rgb_to_hex(colors_rgb[1], colors_rgb[2], colors_rgb[3])
                        \o Zeros(26)), "None")

\* BleLightRequestFactory.create_color_temperature_request
create_color_temperature_request(color_temp_kelvin) ==
    IF ~(2000 <= color_temp_kelvin /\ color_temp_kelvin <= 6500)
    THEN ValueError
    ELSE BleRequest(ble_get_payload(<<3, 3, 0, 5, 0, 13, 15, 15, 15, 15, 15, 15>>
                        \o HexZfill4(color_temp_kelvin) \o Zeros(22)), "None")

\* BleLightRequestFactory.create_power_state_status_request
create_power_state_status_request ==
    BleRequest(ble_get_payload(<<10, 10, 0, 1>> \o Zeros(34)),
               "process_power_state_status_request")

\* BleLightRequestFactory.create_brightness_status_request
create_brightness_status_request ==
    BleRequest(ble_get_payload(<<10, 10, 0, 4>> \o Zeros(34)),
               "process_brightness_status_request")

\* BleLightRequestFactory.create_color_status_request
create_color_status_request ==
    BleRequest(ble_get_payload(<<10, 10, 0, 5, 0, 1>> \o Zeros(32)),
               "process_color_status_request")

\* BleLightController.set_brightness, lines 36-43: the command it sends
set_brightness(percent) ==
    IF percent < 1 \/ percent > 100
    THEN ValueError
    ELSE LET digits == DecimalZfill2(CeilDiv(64 * percent, 100))
             brightness == IF digits = <<0, 0>> THEN <<0, 1>> ELSE digits
             payload == <<3, 3, 0, 4>> \o brightness \o Zeros(32)
         IN <<"command", HexBytes(payload \o ble_get_checksum(payload))>>

\* BleLightController.set_color_temperature, lines 72-81: the command it sends
set_color_temperature(kelvin) ==
    LET clamped == IF kelvin < 2700 THEN 2700 ELSE IF kelvin > 6500 THEN 6500 ELSE kelvin
        payload == <<3, 3, 0, 5, 0, 13, 15, 15, 15, 15, 15, 15>>
                       \o HexZfill4(clamped) \o Zeros(22)
    IN <<"command", HexBytes(payload \o ble_get_checksum(payload))>>

\* helper.ble_get_command of the light entity: payload plus checksum as bytes
ble_get_command(payload) == HexBytes(payload \o ble_get_checksum(payload))

\* ------------------------------------------- responses (govee/helper.py)
\* str.startswith
StartsWith(s, prefix) == Len(s) >= Len(prefix) /\ SubSeq(s, 1, Len(prefix)) = prefix

\* the slice s[a:b] of a str, which stops at the end of s
Slice(s, a, b) ==
    LET last == IF b < Len(s) THEN b ELSE Len(s)
    IN IF a >= last THEN <<>> ELSE SubSeq(s, a + 1, last)

\* str.isdigit on a hex string
IsDigit(s) == s # <<>> /\ \A i \in 1..Len(s) : s[i] <= 9

\* int(s) of a str of decimal digits
RECURSIVE DecToInt(_)
DecToInt(s) ==
    IF s = <<>> THEN 0 ELSE 10 * DecToInt(SubSeq(s, 1, Len(s) - 1)) + s[Len(s)]

\* round(a / b): to the nearest integer, a tie to the even one
RoundHalfEven(a, b) ==
    LET q == a \div b
        r == a % b
    IN IF 2 * r > b \/ (2 * r = b /\ q % 2 = 1) THEN q + 1 ELSE q

\* kelvin_to_rgb: math.ceil of the three clamped channels, tabulated from the
\* logarithmic formula for the temperatures used here
kelvin_to_rgb(kelvin) ==
    CASE kelvin = 2000 -> <<255, 137, 14>>
      [] kelvin = 2700 -> <<255, 167, 88>>
      [] kelvin = 3000 -> <<255, 178, 110>>
      [] kelvin = 6500 -> <<255, 255, 251>>

\* (mutant: the brightness digits are always read as hex)
BrightnessValue_Hex(brightness) == HexToInt(brightness)

\* process_brightness_status_request lines 86-90: the two digits are read as a
\* decimal number when both are decimal digits, else as a hex number
BrightnessValue(brightness) ==
    IF IsDigit(brightness) THEN DecToInt(brightness) ELSE HexToInt(brightness)

\* ResponseProcessor.process_brightness_status_request on event.response;
\* int("", 16) raises ValueError
process_brightness_status_request(data) ==
    LET response == BytesHex(data)
        brightness == Slice(response, 4, 6)
        brightness_percent == RoundHalfEven(BrightnessValue(brightness) * 100, 64)
    IN IF ~StartsWith(response, <<10, 10, 0, 4>>) THEN <<"None">>
       ELSE IF brightness = <<>> THEN ValueError
       ELSE <<"int", IF brightness_percent = 0 THEN 1 ELSE brightness_percent>>

\* (mutant: the colour is always read from the reply's colour bytes)
ColorOfReply_Literal(response, color_temp_kelvin) == hex_to_rgb(Slice(response, 6, 12))

\* process_color_status_request lines 106-109
ColorOfReply(response, color_temp_kelvin) ==
    IF color_temp_kelvin > 0
    THEN kelvin_to_rgb(color_temp_kelvin)
    ELSE hex_to_rgb(Slice(response, 6, 12))

\* ResponseProcessor.process_color_status_request on event.response
process_color_status_request(data) ==
    LET response == BytesHex(data)
        color_temp_kelvin == HexToInt(Slice(response, 12, 16))
    IN IF ~StartsWith(response, <<10, 10, 0, 5>>) THEN <<"None">>
       ELSE IF Slice(response, 12, 16) = <<>> THEN ValueError
       ELSE <<"ColorResponse", ColorOfReply(response, color_temp_kelvin),
              color_temp_kelvin>>

\* process_power_state_status_request, as a value of the same shape
PowerState(data) ==
    LET r == process_power_state_status_request(data)
    IN IF r = "None" THEN <<"None">> ELSE <<"bool", r = "True">>

\* ------------------------- BleLightController: what a getter makes of response
\* is_power_on line 33
is_power_on(data) == <<"bool", StartsWith(BytesHex(data), <<10, 10, 0, 1, 0, 1>>)>>

\* get_brightness lines 51-53: int(response.hex()[4:6]) reads decimal digits and
\* raises ValueError on anything else
get_brightness(data) ==
    LET brightness == Slice(BytesHex(data), 4, 6)
    IN IF ~IsDigit(brightness) THEN ValueError
       ELSE <<"int", CeilDiv(DecToInt(brightness) * 100, 64)>>

\* get_color line 69
get_color(data) == <<"str", Slice(BytesHex(data), 6, 12)>>

\* get_color_temperature lines 89-90
get_color_temperature(data) ==
    LET color_temp == Slice(BytesHex(data), 12, 16)
    IN IF color_temp = <<>> THEN ValueError ELSE <<"int", HexToInt(color_temp)>>

\* ------------------------------------------------------ the codecs at work
\* arguments the encoders are called with: every valid percent and one beyond
\* each end, Home Assistant brightness values, colours, colour temperatures
Percents == 0..101
HaBrightnesses == {0, 1, 2, 64, 128, 254, 255}
Colors == {<<255, 0, 0>>, <<1, 2, 3>>, <<0, 171, 205>>, <<0, 0, 256>>}
KelvinArgs == {1500, 1999, 2000, 2699, 2700, 3000, 6500, 6501, 7000}
LightKelvinArgs == {2000, 2700, 3000, 6500}

\* a reply of the peripheral: 20 bytes, the unused ones zero
Pad20(bytes) == bytes \o Zeros(20 - Len(bytes))

PowerReplies == {Pad20(<<170, 1, b>>) : b \in {0, 1}}
BrightnessReplies == {Pad20(<<170, 4, v>>) : v \in 0..255}
ReplyColors == {<<255, 0, 0>>, <<1, 2, 3>>}
ReplyKelvins == {0, 2700, 3000}
ColorReplies ==
    {Pad20(<<170, 5, 1>> \o rgb \o HexBytes(HexZfill4(k))) :
        rgb \in ReplyColors, k \in ReplyKelvins}
\* replies cut short, and a frame of no reply class
ShortReplies == {<<170, 1>>, <<170, 4>>, <<170, 5>>, <<170, 5, 1, 255, 0, 0>>}
OtherReplies == {Pad20(<<51, 1, 1>>), Pad20(<<170, 238, 1>>)}
Replies ==
    PowerReplies \cup BrightnessReplies \cup ColorReplies \cup ShortReplies
        \cup OtherReplies

Decoders ==
    {"process_power_state_status_request", "process_brightness_status_request",
     "process_color_status_request", "is_power_on", "get_brightness", "get_color",
     "get_color_temperature"}

\* the bytes of a request that was built
Frame(r) == r[2]

\* nothing has been encoded or decoded yet
Fresh == request = <<"none">> /\ decoded = <<"none">>

\* a caller asks BleLightRequestFactory for a request
FactoryCreate(cmd) ==
    /\ Fresh
    /\ command' = <<"BleLightRequestFactory">> \o cmd
    /\ request' =
           CASE cmd[1] = "power" -> create_power_state_request(cmd[2])
             [] cmd[1] = "brightness" -> create_brightness_request(cmd[2])
             [] cmd[1] = "color" -> create_color_request(cmd[2])
             [] cmd[1] = "color_temperature" -> create_color_temperature_request(cmd[2])
             [] cmd[1] = "power_status" -> create_power_state_status_request
             [] cmd[1] = "brightness_status" -> create_brightness_status_request
             [] cmd[1] = "color_status" -> create_color_status_request
    /\ notification' = <<>>
    /\ decoded' = <<"none">>
    /\ UNCHANGED <<transportVars, classVars, eventVars, callerVars, historyVars, impl,
                   ctlVars, lightVars>>

\* a BleLightController setter builds its command
ControllerCommand(cmd) ==
    /\ Fresh
    /\ command' = <<"BleLightController">> \o cmd
    /\ request' =
           CASE cmd[1] = "brightness" -> set_brightness(cmd[2])
             [] cmd[1] = "color_temperature" -> set_color_temperature(cmd[2])
    /\ notification' = <<>>
    /\ decoded' = <<"none">>
    /\ UNCHANGED <<transportVars, classVars, eventVars, callerVars, historyVars, impl,
                   ctlVars, lightVars>>

\* GoveeBluetoothLight.async_turn_on builds the command of one keyword argument
LightCommand(cmd) ==
    /\ Fresh
    /\ command' = <<"GoveeBluetoothLight">> \o cmd
    /\ request' =
           CASE cmd[1] = "brightness" ->
                    <<"command", ble_get_command(BrightnessPayload(cmd[2]))>>
             [] cmd[1] = "color_temperature" ->
                    <<"command", ble_get_command(ColorTempPayload(cmd[2]))>>
    /\ notification' = <<>>
    /\ decoded' = <<"none">>
    /\ UNCHANGED <<transportVars, classVars, eventVars, callerVars, historyVars, impl,
                   ctlVars, lightVars>>

\* the peripheral reports the brightness byte it was sent, and
\* process_brightness_status_request decodes the report
DeviceReportsBrightness ==
    /\ command[2] = "brightness"
    /\ request # ValueError
    /\ decoded = <<"none">>
    /\ notification' = Pad20(<<170, 4, Frame(request)[3]>>)
    /\ decoded' = <<"process_brightness_status_request",
                    process_brightness_status_request(notification')>>
    /\ UNCHANGED <<transportVars, classVars, eventVars, callerVars, historyVars, impl,
                   ctlVars, lightVars, command, request>>

\* colours for the round trip: each channel takes every value 0..255 while the
\* other two take a few
Channels == 0..255
ChannelSamples == {0, 255}
RoundTripColors ==
    {<<v, a, b>> : v \in Channels, a \in ChannelSamples, b \in ChannelSamples}
        \cup {<<a, v, b>> : v \in Channels, a \in ChannelSamples, b \in ChannelSamples}
        \cup {<<a, b, v>> : v \in Channels, a \in ChannelSamples, b \in ChannelSamples}

\* a colour is formatted by rgb_to_hex and the result parsed by hex_to_rgb
ColorRoundTrip(rgb) ==
    /\ Fresh
    /\ command' = <<"helper", "rgb", rgb>>
    /\ request' = <<"hex", rgb_to_hex(rgb[1], rgb[2], rgb[3])>>
    /\ decoded' = <<"hex_to_rgb", hex_to_rgb(request'[2])>>
    /\ UNCHANGED <<transportVars, classVars, eventVars, callerVars, historyVars, impl,
                   ctlVars, lightVars, notification>>

\* a decode callback, or a getter of the controller, is given a notification
Decode(decoder, data) ==
    /\ Fresh
    /\ UNCHANGED <<command, request>>
    /\ notification' = data
    /\ decoded' =
           <<decoder,
             CASE decoder = "process_power_state_status_request" -> PowerState(data)
               [] decoder = "process_brightness_status_request" ->
                      process_brightness_status_request(data)
               [] decoder = "process_color_status_request" ->
                      process_color_status_request(data)
               [] decoder = "is_power_on" -> is_power_on(data)
               [] decoder = "get_brightness" -> get_brightness(data)
               [] decoder = "get_color" -> get_color(data)
               [] decoder = "get_color_temperature" -> get_color_temperature(data)>>
    /\ UNCHANGED <<transportVars, classVars, eventVars, callerVars, historyVars, impl,
                   ctlVars, lightVars>>

NextCodec ==
    \/ \E b \in BOOLEAN : FactoryCreate(<<"power", b>>)
    \/ \E p \in Percents : FactoryCreate(<<"brightness", p>>)
    \/ \E c \in Colors : FactoryCreate(<<"color", c>>)
    \/ \E k \in KelvinArgs : FactoryCreate(<<"color_temperature", k>>)
    \/ \E q \in {"power_status", "brightness_status", "color_status"} :
           FactoryCreate(<<q, 0>>)
    \/ \E p \in Percents : ControllerCommand(<<"brightness", p>>)
    \/ \E k \in KelvinArgs : ControllerCommand(<<"color_temperature", k>>)
    \/ \E b \in HaBrightnesses : LightCommand(<<"brightness", b>>)
    \/ \E k \in LightKelvinArgs : LightCommand(<<"color_temperature", k>>)
    \/ DeviceReportsBrightness
    \/ \E rgb \in RoundTripColors : ColorRoundTrip(rgb)
    \/ \E decoder \in Decoders, data \in Replies : Decode(decoder, data)

\* the request factory, the command builders and the decoders, each applied
\* once to one argument or notification
SpecCodec == Init /\ [][NextCodec]_vars

Next ==
    \/ \E t \in Callers, kind \in {"set", "query"} : SendRequest(t, kind)
    \/ \E t \in Callers : ConnectOk(t)
    \/ \E t \in Callers : ConnectFail(t)
    \/ \E t \in Callers : StartNotify(t)
    \/ \E t \in Callers : WriteOk(t)
    \/ \E t \in Callers : WriteFail(t)
    \/ \E c \in ConnIds, data \in Notifs : Notify(c, data)
    \/ \E c \in ConnIds : Disconnect(c)
    \/ \E c \in ConnIds : LinkDrop(c)
    \/ \E t \in Callers : WaitReturn(t)
    \/ \E t \in Callers : WaitTimeout(t)
    \/ \E t \in Callers : Return(t)
    \/ \E wait \in BOOLEAN : CtlSendCommand(wait)
    \/ CtlConnectOk
    \/ CtlConnectFail
    \/ CtlStartNotify
    \/ CtlWriteOk
    \/ CtlWriteFail
    \/ \E c \in ConnIds, data \in Notifs : CtlNotify(c, data)
    \/ CtlAwaitReturn
    \/ \E kwargs \in Kwargs : LightTurnOn(kwargs)
    \/ LightTurnOff
    \/ LightUpdate
    \/ LightConnectOk
    \/ LightConnectFail
    \/ LightStartNotify
    \/ LightWriteOk
    \/ LightWriteFail
    \/ \E c \in ConnIds, data \in LightNotifs : LightNotify(c, data)

\* callers that run concurrently, as tasks of one event loop
Spec == Init /\ [][Next]_vars

\* a caller starts a request only when no other caller is inside one
SendRequestSeq(t, kind) ==
    /\ \A u \in Callers \ {t} : pc[u] = "idle"
    /\ SendRequest(t, kind)

NextSeq ==
    \/ \E t \in Callers, kind \in {"set", "query"} : SendRequestSeq(t, kind)
    \/ \E t \in Callers : ConnectOk(t)
    \/ \E t \in Callers : ConnectFailFree(t)
    \/ \E t \in Callers : StartNotify(t)
    \/ \E t \in Callers : WriteOk(t)
    \/ \E t \in Callers : WriteFail(t)
    \/ \E c \in ConnIds, data \in Notifs : Notify(c, data)
    \/ \E c \in ConnIds : Disconnect(c)
    \/ \E c \in ConnIds : LinkDrop(c)
    \/ \E t \in Callers : WaitReturn(t)
    \/ \E t \in Callers : WaitTimeout(t)
    \/ \E t \in Callers : Return(t)
    \/ \E wait \in BOOLEAN : CtlSendCommand(wait)
    \/ CtlConnectOk
    \/ CtlConnectFailFree
    \/ CtlStartNotify
    \/ CtlWriteOk
    \/ CtlWriteFail
    \/ \E c \in ConnIds, data \in Notifs : CtlNotify(c, data)
    \/ CtlAwaitReturn
    \/ \E kwargs \in Kwargs : LightTurnOn(kwargs)
    \/ LightTurnOff
    \/ LightUpdate
    \/ LightConnectOk
    \/ LightConnectFailFree
    \/ LightStartNotify
    \/ LightWriteOk
    \/ LightWriteFail
    \/ \E c \in ConnIds, data \in LightNotifs : LightNotify(c, data)

\* requests issued one after the other; the peripheral may stay out of reach
\* for as many connect attempts as it likes
SpecSeq == Init /\ [][NextSeq]_vars

\* the event loop resumes a task whose awaited call has completed, a pending
\* disconnect completes and the timer of wait_for fires; the peripheral owes
\* nothing: no fairness on Notify, CtlNotify and LinkDrop
Fairness ==
    /\ \A t \in Callers : WF_vars(ConnectOk(t))
    /\ \A t \in Callers : WF_vars(StartNotify(t))
    /\ \A t \in Callers : WF_vars(WriteOk(t) \/ WriteFail(t))
    /\ \A t \in Callers : WF_vars(WaitReturn(t) \/ WaitTimeout(t))
    /\ \A t \in Callers : WF_vars(Return(t))
    /\ \A c \in ConnIds : WF_vars(Disconnect(c))
    /\ WF_vars(CtlConnectOk)
    /\ WF_vars(CtlStartNotify)
    /\ WF_vars(CtlWriteOk \/ CtlWriteFail)
    /\ WF_vars(CtlAwaitReturn)
    /\ WF_vars(LightConnectOk)
    /\ WF_vars(LightStartNotify)
    /\ WF_vars(LightWriteOk \/ LightWriteFail)

FairSpec == Init /\ [][Next]_vars /\ Fairness

TypeOK ==
    /\ nconn \in 0..(MAX_SEND_RETRIES * MaxOps)
    /\ nevents \in 0..(MAX_SEND_RETRIES * MaxOps)
    /\ nfut \in 0..(MAX_SEND_RETRIES * MaxOps)
    /\ impl \in Impls
    /\ \A t \in Callers : connection_try_counter[t] \in 0..MAX_CONNECTION_RETRIES
    /\ retry_count \in 0..max_retries
    /\ lightRetryCount \in 0..light_max_retries
    /\ attr_is_on \in BOOLEAN
    /\ Len(payloads) <= 4

\* ===================================================================== claims

\* a query request of caller t is pending: its listener is armed and its event
\* has neither been set nor been given up by a timeout
Pending(t) ==
    /\ req[t] = "query"
    /\ pc[t] \in {"writing", "waiting"}
    /\ listener[client[t]] = ev[t]
    /\ ~events[ev[t]].isSet

\* C1: at most one response-awaiting request per device address is pending at
\* any time; a second query does not arm its listener while the first is pending.
C1_OnePendingRequest == Cardinality({t \in Callers : Pending(t)}) <= 1

\* C2: a response-expecting request is completed exactly once: once a
\* notification has recorded response and decoded result, no later notification
\* changes them (BleClient events and the controller's futures).
C2_CompletedOnce ==
    [][/\ \A e \in EventIds : events[e].response # None =>
              /\ events'[e].response = events[e].response
              /\ events'[e].notify_response = events[e].notify_response
       /\ \A f \in EventIds : futures[f].done => futures'[f] = futures[f]]_vars

\* C3: every query eventually completes: a caller waiting in
\* wait_for_event_with_timeout and a BleLightController method waiting for its
\* notification both come to an end, also when the peripheral never notifies.
C3_QueriesComplete ==
    /\ \A t \in Callers : (pc[t] = "waiting") ~> (pc[t] = "done")
    /\ (ctlPc = "awaiting") ~> (ctlPc = "done")

\* C4: connect-with-retry is bounded: the attempt in flight is within the budget
\* (12 in _get_client, 5 in _get_connection); an attempt that succeeds ends the
\* call with that connection; the failure of the last attempt of the budget ends
\* the call with an error; in both cases no further attempt is made.
C4_ConnectBounded ==
    [][/\ \A t \in Callers : pc[t] = "connecting" =>
              /\ attempts[t] + 1 <= MAX_CONNECTION_RETRIES
              /\ client'[t] # client[t] =>
                     /\ client'[t] = nconn' /\ connected'[nconn']
                     /\ pc'[t] \in {"arming", "writing"}
              /\ pc'[t] = "connecting" =>
                     /\ attempts'[t] \in {attempts[t], attempts[t] + 1}
                     /\ attempts'[t] + 1 <= MAX_CONNECTION_RETRIES
              /\ pc'[t] = "done" =>
                     /\ ret'[t] = "raised"
                     /\ attempts[t] + 1 = MAX_CONNECTION_RETRIES
       /\ ctlPc = "connecting" =>
              /\ ctlAttempts + 1 <= max_retries
              /\ ctlClient' # ctlClient =>
                     /\ ctlClient' = nconn' /\ connected'[nconn']
                     /\ ctlPc' \in {"arming", "writing"}
              /\ ctlPc' = "connecting" =>
                     /\ ctlAttempts' \in {ctlAttempts, ctlAttempts + 1}
                     /\ ctlAttempts' + 1 <= max_retries
              /\ ctlPc' = "done" =>
                     /\ ctlRet' = "raised"
                     /\ ctlAttempts + 1 = max_retries
       /\ lightPc = "connecting" =>
              /\ lightAttempts + 1 <= light_max_retries
              /\ lightClient' # lightClient =>
                     /\ lightClient' = nconn' /\ connected'[nconn']
                     /\ lightPc' \in {"arming", "writing"}
              /\ lightPc' = "connecting" =>
                     /\ lightAttempts' \in {lightAttempts, lightAttempts + 1}
                     /\ lightAttempts' + 1 <= light_max_retries
              /\ lightPc' = "done" =>
                     /\ lightRet' = "raised"
                     /\ lightAttempts + 1 = light_max_retries]_vars

\* the last attempt of the budget is in flight, eleven having failed
C4_Witness == \E t \in Callers :
    pc[t] = "connecting" /\ attempts[t] + 1 = MAX_CONNECTION_RETRIES

\* C5: send_request never returns normally without a response event: when every
\* send attempt failed with a transport error the caller sees a failure.
C5_FailureSurfaces == \A t \in Callers : pc[t] = "done" => ret[t] \in {"event", "raised"}

\* C6: after a write on a connection failed, the cached connection and the cached
\* write characteristic are invalidated and no write is issued through that
\* connection again.
C6_InvalidatedAfterWriteFailure ==
    /\ connections[Dev] \notin writeFailed
    /\ ble_write_characteristic[Dev] \notin writeFailed
    /\ \A t \in Callers : ~pendingWrite[t].afterFail

\* C7: the write characteristic used for a write was resolved from the services
\* of the connection the write goes through.
C7_CharacteristicOfSameConnection ==
    /\ \A t \in Callers : pendingWrite[t].conn # 0 =>
           pendingWrite[t].char = pendingWrite[t].conn
    /\ ctlWrite.conn # 0 => ctlWrite.char = ctlWrite.conn

\* C8: no send_request issues a write through a connection that the transport
\* has reported disconnected; in particular none through a cached one.
C8_NoWriteThroughDisconnected ==
    \A t \in Callers : pendingWrite[t].conn # 0 => pendingWrite[t].live

\* the cached connection is disconnected and the next set request connects anew
C8_Witness == \E t \in Callers :
    /\ req[t] = "set"
    /\ pc[t] = "connecting"
    /\ connections[Dev] # 0
    /\ ~connected[connections[Dev]]

\* C9: after a query timed out its listener is disarmed: no notification
\* records a response in the event of the timed-out request or sets it.
C9_DisarmedAfterTimeout ==
    \A e \in timedOut : events[e].response = None /\ ~events[e].isSet

\* C10: after a query on the device timed out, a later query whose notification
\* arrives completes successfully, with the decoding of a notification received
\* on its own connection.
C10_QueryAfterTimeoutSucceeds ==
    [][\A t \in Callers :
          (timedOut # {} /\ pc[t] = "waiting" /\ pc'[t] = "done"
              /\ events[ev[t]].response # None) =>
              /\ waitResult'[t] = "True"
              /\ events[ev[t]].src = client[t]
              /\ got'[t] = process_power_state_status_request(events[ev[t]].response[1])]_vars

\* a query completed with the decoded power state after an earlier one timed out
C10_Witness == \E t \in Callers :
    timedOut # {} /\ pc[t] = "done" /\ waitResult[t] = "True" /\ got[t] = "True"
\* C11: the listener of a response-expecting request is armed before its frame
\* is written: at every step that calls write_gatt_char for a query (BleClient
\* with a notify callback, _send_command with wait_for_notify, async_update)
\* start_notify has completed on that connection for that request.
C11_ArmedBeforeWrite ==
    [][/\ \A t \in Callers :
              (req[t] = "query" /\ pendingWrite[t].conn = 0 /\ pendingWrite'[t].conn # 0)
                  => /\ ev'[t] # 0
                     /\ listener'[pendingWrite'[t].conn] = ev'[t]
       /\ (wait_for_notify' /\ ctlWrite.conn = 0 /\ ctlWrite'.conn # 0)
              => /\ response_future' # 0
                 /\ listener'[ctlWrite'.conn] = response_future'
       /\ (/\ lightOp' = "update"
           /\ lightPc' = "writing"
           /\ (lightPc # "writing" \/ payloads' # payloads))
              => listener'[lightClient'] # 0]_vars

\* a query frame is being written and its listener is armed
C11_Witness == \E t \in Callers :
    req[t] = "query" /\ pc[t] = "writing" /\ listener[client[t]] = ev[t]

\* the write of caller t's set request comes to an end at this step
SetWriteEnds(t) == req[t] = "set" /\ pc[t] = "writing" /\ ev'[t] # ev[t]

\* _send_request_to_device returns the event of caller t's query at this step
QueryWriteReturns(t) == req[t] = "query" /\ pc[t] = "writing" /\ pc'[t] = "waiting"

\* event e becomes set at this step because on_notify ran for a notification
\* and stored the decode callback's result
SetByNotification(e) ==
    /\ events[e].response = None
    /\ events'[e].response # None
    /\ events'[e].notify_response =
           process_power_state_status_request(events'[e].response[1])
    /\ \E c \in ConnIds : connected[c] /\ listener[c] = e

\* C12 as stated: the event of a request without a notify callback is set
\* exactly when the write succeeded; the event of a request with a notify
\* callback is not set when _send_request_to_device returns and becomes set
\* only by a notification passed to the decode callback.
C12_AsStated ==
    [][/\ \A t \in Callers :
              /\ SetWriteEnds(t) => (events'[ev[t]].isSet <=> ret'[t] = "event")
              /\ QueryWriteReturns(t) => ~events'[ev[t]].isSet
       /\ \A e \in EventIds : (~events[e].isSet /\ events'[e].isSet) =>
              \/ \E t \in Callers : ev[t] = e /\ SetWriteEnds(t)
              \/ SetByNotification(e)]_vars

\* C12: the completion signal is set only for the right reason: the event of a
\* request without a notify callback is set exactly when the write succeeded;
\* for a request with a notify callback the return of the write leaves the
\* event as it is, and the event becomes set only by a notification passed to
\* the decode callback (which may happen while the write is still in flight).
C12_SetForTheRightReason ==
    [][/\ \A t \in Callers :
              /\ SetWriteEnds(t) => (events'[ev[t]].isSet <=> ret'[t] = "event")
              /\ QueryWriteReturns(t) => events'[ev[t]] = events[ev[t]]
       /\ \A e \in EventIds : (~events[e].isSet /\ events'[e].isSet) =>
              \/ \E t \in Callers : ev[t] = e /\ SetWriteEnds(t)
              \/ SetByNotification(e)]_vars

\* a query whose write has returned with the event still unset, and a set
\* request whose event was set by its write
C12_Witness ==
    /\ \E t \in Callers : req[t] = "query" /\ pc[t] = "waiting" /\ ~events[ev[t]].isSet
    /\ \E e \in EventIds : events[e].isSet /\ events[e].response = None

\* the larger of two numbers
Max(a, b) == IF a > b THEN a ELSE b

\* a request or command was built (no ValueError)
Built == request[1] \in {"BleRequest", "command"}

\* C13: every frame built for a valid command is exactly 20 bytes long, its
\* last byte is the XOR of the 19 bytes before it, and the XOR of all 20 bytes
\* is 0 (BleLightRequestFactory, and the command builders of the controller
\* and of the light entity).
C13_FrameChecksum ==
    Built =>
        /\ Len(Frame(request)) = 20
        /\ Frame(request)[20] = XorAll(SubSeq(Frame(request), 1, 19))
        /\ XorAll(Frame(request)) = 0

\* the factory has built a colour frame whose checksum is not zero
C13_Witness ==
    /\ command = <<"BleLightRequestFactory", "color", <<0, 171, 205>>>>
    /\ request[1] = "BleRequest"
    /\ Frame(request)[20] = 93

\* C14: for every percent p in 1..100 the third byte of the brightness frame
\* has the numeric value ceil(64 * p / 100), a result of 0 replaced by 1
\* (create_brightness_request and BleLightController.set_brightness).
C14_BrightnessByte ==
    (/\ command[1] \in {"BleLightRequestFactory", "BleLightController"}
     /\ command[2] = "brightness"
     /\ command[3] \in 1..100)
        => /\ Built
           /\ Frame(request)[3] = Max(1, CeilDiv(64 * command[3], 100))

\* C15: brightness round trip: for every percent p in 1..100, decoding the
\* reply that carries the brightness byte of create_brightness_request(p)
\* yields a percent within 2 of p, and never 0.
C15_BrightnessRoundTrip ==
    (/\ command[1] = "BleLightRequestFactory"
     /\ command[2] = "brightness"
     /\ command[3] \in 1..100
     /\ decoded[1] = "process_brightness_status_request")
        => /\ decoded[2][1] = "int"
           /\ decoded[2][2] - command[3] \in -2..2
           /\ decoded[2][2] # 0

\* 100 percent went out as the digits 64 and came back as 100 percent
C15_Witness ==
    /\ command = <<"BleLightRequestFactory", "brightness", 100>>
    /\ decoded = <<"process_brightness_status_request", <<"int", 100>>>>
    /\ notification[3] = 100

\* C16: for a brightness reply whose brightness byte has the numeric value v
\* in 0..64, the decoded percent is ceil(v * 100 / 64) with a floor of 1
\* (process_brightness_status_request and BleLightController.get_brightness).
C16_BrightnessDecoded ==
    (/\ decoded[1] \in {"process_brightness_status_request", "get_brightness"}
     /\ notification \in BrightnessReplies
     /\ notification[3] \in 0..64)
        => decoded[2] = <<"int", Max(1, CeilDiv(notification[3] * 100, 64))>>

\* kelvin clamped to [2000, 6500]
Clamped(kelvin) == IF kelvin < 2000 THEN 2000 ELSE IF kelvin > 6500 THEN 6500 ELSE kelvin

\* C17: a colour temperature set operation clamps kelvin to [2000, 6500] and
\* the frame carries the clamped value big-endian in bytes 6-7 after the
\* colour bytes ff ff ff; a value out of range is clamped, not rejected.
C17_KelvinClamped ==
    command[2] = "color_temperature"
        => /\ Built
           /\ SubSeq(Frame(request), 4, 6) = <<255, 255, 255>>
           /\ Frame(request)[7] * 256 + Frame(request)[8] = Clamped(command[3])

\* a colour reply with other colour bytes (bytes 3-5)
WithColor(reply, rgb) == SubSeq(reply, 1, 3) \o rgb \o SubSeq(reply, 7, Len(reply))

\* C18: decoding a colour reply: a kelvin field (bytes 6-7) of 0 gives kelvin 0
\* and the RGB triple of bytes 3-5; a kelvin field above 0 gives that kelvin
\* and an RGB triple that depends on the kelvin only, whatever bytes 3-5 are.
C18_ColorDecoded ==
    (decoded[1] = "process_color_status_request" /\ notification \in ColorReplies)
        => LET kelvin == notification[7] * 256 + notification[8] IN
           /\ decoded[2][1] = "ColorResponse"
           /\ decoded[2][3] = kelvin
           /\ kelvin = 0 => decoded[2][2] = SubSeq(notification, 4, 6)
           /\ kelvin > 0 => \A rgb \in ReplyColors :
                  process_color_status_request(WithColor(notification, rgb)) = decoded[2]

\* a reply with colour bytes 1, 2, 3 and 3000 K was decoded to the colour of 3000 K
C18_Witness ==
    /\ notification = Pad20(<<170, 5, 1, 1, 2, 3, 11, 184>>)
    /\ decoded = <<"process_color_status_request",
                   <<"ColorResponse", <<255, 178, 110>>, 3000>>>>

\* the reply class a decoder expects
ExpectedClass(decoder) ==
    CASE decoder \in {"process_power_state_status_request", "is_power_on"} -> 1
      [] decoder \in {"process_brightness_status_request", "get_brightness"} -> 4
      [] OTHER -> 5

\* C19: a notification whose class is not the one the pending request expects
\* decodes to the no-data result: no error, and no power, brightness or colour
\* value (ResponseProcessor decoders and BleLightController getters).
C19_WrongClassIsNoData ==
    (/\ decoded[1] \in Decoders
     /\ Len(notification) = 20
     /\ (notification[1] # 170 \/ notification[2] # ExpectedClass(decoded[1])))
        => decoded[2] = <<"None">>

\* the number of bytes a decoder reads
MinLength(decoder) ==
    CASE decoder \in {"process_power_state_status_request", "is_power_on",
                      "process_brightness_status_request", "get_brightness"} -> 3
      [] decoder = "get_color" -> 6
      [] OTHER -> 8

\* C20: a notification of the expected class that is too short for its value
\* to be read makes decoding fail with an error; it is never decoded to a
\* default value such as power off.
C20_ShortReplyIsError ==
    (/\ decoded[1] \in Decoders
     /\ notification \in ShortReplies
     /\ notification[2] = ExpectedClass(decoded[1])
     /\ Len(notification) < MinLength(decoded[1]))
        => decoded[2] = ValueError

\* C21: invalid caller input is rejected before any I/O: a colour with a channel
\* outside 0..255 (a brightness percent outside 1..100) raises a validation
\* error and changes nothing, so no such colour ever becomes the entity's
\* exposed state and no payload made of it waits for a connection or a write.
C21_InvalidInputRejected ==
    /\ attr_rgb_color # None => \A i \in 1..3 : attr_rgb_color[1][i] \in 0..255
    /\ \A i \in 1..Len(payloads) : Len(payloads[i]) = 38

\* C22: for every (r, g, b) with each channel in 0..255,
\* hex_to_rgb(rgb_to_hex(r, g, b)) equals (r, g, b).
C22_RgbRoundTrip ==
    decoded[1] = "hex_to_rgb" =>
        /\ Len(request[2]) = 6
        /\ decoded[2] = command[3]

\* a colour with a two-digit, a one-digit and a zero channel made the round trip
C22_Witness ==
    /\ command = <<"helper", "rgb", <<255, 9, 0>>>>
    /\ request = <<"hex", <<15, 15, 0, 9, 0, 0>>>>
    /\ decoded = <<"hex_to_rgb", <<255, 9, 0>>>>

\* a caller enters _send_request_to_device: the first pass of send_request, or
\* the next one after a BleakError
PassStarts(t) ==
    \/ pc[t] = "idle" /\ pc'[t] # "idle"
    \/ counter'[t] = counter[t] + 1

\* _get_client has returned a connection to the caller
Connects(t) == pc[t] = "connecting" /\ client'[t] # 0

\* C23: connection selection in _send_request_to_device: a request without a
\* notify callback, sent while the cached connection of the address is connected,
\* is written through that cached connection with no connect attempt; a request
\* with a notify callback always opens a new connection, which is not stored in
\* the connection cache and leaves the cached entry unchanged.
C23_ConnectionSelection ==
    [][\A t \in Callers :
          /\ PassStarts(t) /\ req'[t] = "set" /\ CanReuse(Dev)
                => /\ pc'[t] = "writing"
                   /\ pendingWrite'[t].conn = connections[Dev]
                   /\ client'[t] = connections[Dev]
                   /\ nconn' = nconn
                   /\ attempts'[t] = attempts[t]
          /\ PassStarts(t) /\ req'[t] = "query"
                => /\ pc'[t] = "connecting"
                   /\ client'[t] = 0
          /\ Connects(t) /\ req[t] = "query"
                => /\ nconn' = nconn + 1
                   /\ client'[t] = nconn'
                   /\ connections' = connections
                   /\ connections'[Dev] # client'[t]]_vars

\* a query holds a connection of its own while the cached one is connected
C23_Witness ==
    \E t \in Callers :
        /\ req[t] = "query"
        /\ pc[t] = "writing"
        /\ CanReuse(Dev)
        /\ client[t] # connections[Dev]
        /\ pendingWrite[t].conn = client[t]

\* a request without a callback is being written through the cached connection
C23_ReuseReached ==
    \E t \in Callers :
        /\ req[t] = "set"
        /\ pc[t] = "writing"
        /\ pendingWrite[t].reused
        /\ pendingWrite[t].conn = connections[Dev]
        /\ attempts[t] = 0

\* C24: every connection opened for a query request is eventually disconnected,
\* whether the query ends by receiving its notification, by timing out, or by a
\* failed write: a BleClient connection with an armed listener (only a query
\* arms one) does not stay connected forever.
C24_QueryConnectionClosed ==
    \A c \in ConnIds :
        (impl = "BleClient" /\ connected[c] /\ listener[c] # 0) ~> ~connected[c]

\* a step of async_turn_on / async_turn_off itself (not a notification)
LightCallStep ==
    /\ lightOp' \in {"turn_on", "turn_off"}
    /\ <<lightPc, payloads, lightRetryCount>>' # <<lightPc, payloads, lightRetryCount>>

\* C25: the light entity's exposed state (is_on, brightness, rgb color, color
\* temperature) changes in async_turn_on / async_turn_off only when the frames
\* were successfully written to the device: the only step of the call that may
\* change it is the one in which the last write succeeds, so that a call ending
\* in a connect or write failure leaves it as it was.
C25_StateFollowsWrites ==
    [][LightCallStep /\ attrVars' # attrVars
          => lightPc = "writing" /\ lightPc' = "done" /\ lightRet' = "returned"]_vars

\* the first call, async_turn_on, has ended in an error and the entity reports on
C25_ChangedAfterFailure ==
    /\ opsStarted = 1
    /\ lightOp = "turn_on"
    /\ lightRet = "raised"
    /\ attr_is_on

====
